---- MODULE Spec2Model ----
(***************************************************************************)
(* A model of db_utils.py: the configuration loader, the connection and    *)
(* engine factories, get_dataframe / save_dataframe and the two helpers    *)
(* built on get_dataframe (get_tables, preview).                           *)
(*                                                                         *)
(* The module is single-threaded: one public call runs at a time.  A call  *)
(* is split at the library calls whose outcome the module does not decide  *)
(* (pd.read_sql, df.to_sql); the outcome of an import, of a driver's       *)
(* connect and of create_engine is an input of the step that makes it.     *)
(* `trace` records, in order, what the current call has done.              *)
(***************************************************************************)
EXTENDS Integers, Sequences, FiniteSets, TLC

VARIABLES
    config,     \* the configuration file: [exists, keys, databases]
    op,         \* the public function being called ("idle" before the first)
    args,       \* the arguments get_dataframe / save_dataframe received
    pc,         \* position in the current call
    query,      \* get_dataframe's local `query` once built
    conn,       \* the connection the current call obtained
    engine,     \* the engine the current call obtained
    trace,      \* what the current call did, in order
    executed,   \* the statements handed to pandas: read_sql and to_sql calls
    out,        \* what the current call printed
    result,     \* how the current call ended
    open_conns,     \* connections opened by get_dataframe and not closed
    open_engines    \* engines created by save_dataframe and not disposed

vars == <<config, op, args, pc, query, conn, engine, trace, executed, out,
          result, open_conns, open_engines>>

(***************************************************************************)
(* Values                                                                  *)
(***************************************************************************)
\* Optional[...] arguments: None is the empty tuple, a value v is <<v>>.
None == <<>>
Some(v) == <<v>>

\* Python truthiness of an Optional[str]: None and "" are both falsy.
Truthy(x) == x # None /\ x[1] # ""

\* A JSON null (or any non-string) as the value of "type".
JsonNull == "<null>"

MaxLimit == 1
PreviewDefaultN == 5
Chunksize == 1000

DbNames == {"demo", "logs"}
CallNames == DbNames \cup {"nope"}
TypeValues == {"postgresql", "mariadb", "PostgreSQL", "oracle", JsonNull}
ProfileKeys == {"type", "host", "port", "user", "password", "database"}
MissingSets == {{}, {"type"}, {"host", "user"}, {"port"}, {"password", "database"}}
Schemas == {None, Some(""), Some("s")}
Limits == {None} \cup {Some(n) : n \in 0..MaxLimit}
Queries == {None, Some("SELECT 1")}
Tables == {None, Some("t")}
IfExists == {"append", "replace"}

FullProfile(t) ==
    [type |-> t, host |-> "localhost", port |-> 5432, user |-> "u",
     password |-> "p", database |-> "d"]

Profiles ==
    {[k \in ProfileKeys \ m |-> FullProfile(t)[k]] : t \in TypeValues, m \in MissingSets}

\* The key orders a file with these names can have.
KeyOrders == {<<>>, <<"demo">>, <<"logs">>, <<"demo", "logs">>}

Range(s) == {s[i] : i \in 1..Len(s)}

Configs ==
    {[exists |-> FALSE, keys |-> <<>>, databases |-> <<>>]}
    \cup UNION {{[exists |-> TRUE, keys |-> ks, databases |-> d] :
                    d \in [Range(ks) -> Profiles]} : ks \in KeyOrders}

\* A dispatch that compares the declared type as written.
LowerOmitted(s) == s

\* str.lower() on the type strings of the model.
Lower(s) ==
    CASE s = "PostgreSQL" -> "postgresql"
      [] s = "MariaDB" -> "mariadb"
      [] OTHER -> s

(***************************************************************************)
(* Exceptions, by raise site                                               *)
(***************************************************************************)
NoExc == [exc |-> "none", kind |-> "none", detail |-> "", listed |-> <<>>]
Exc(e, k, d, l) == [exc |-> e, kind |-> k, detail |-> d, listed |-> l]

NoConn == [driver |-> "none"]
NoEngine == [driver |-> "none"]

Pending == [tag |-> "pending", exc |-> NoExc]
Returned == [tag |-> "return", exc |-> NoExc]
Raised(e) == [tag |-> "raise", exc |-> e]

(***************************************************************************)
(* _load_config and the two factories.  Each returns what it did (trace),  *)
(* the exception it raised (NoExc when none) and what it produced.         *)
(***************************************************************************)
\* _load_config(): FileNotFoundError when the file is absent, else the
\* parsed document; nothing in it is validated.
_load_config ==
    IF ~config.exists
    THEN [exc |-> Exc("FileNotFoundError", "ConfigNotFound", "db_config.json", <<>>),
          keys |-> <<>>, databases |-> <<>>]
    ELSE [exc |-> NoExc, keys |-> config.keys, databases |-> config.databases]

\* db_config.get("type", "")
GetType(db_config) ==
    IF "type" \in DOMAIN db_config THEN db_config["type"] ELSE ""

\* Subscripting db_config[k] for the keys of ks in order: the reads made,
\* and the first key that is missing (None when all are present).
RECURSIVE ReadKeys(_, _)
ReadKeys(db_config, ks) ==
    IF ks = <<>> THEN [trace |-> <<>>, missing |-> None]
    ELSE IF Head(ks) \notin DOMAIN db_config
         THEN [trace |-> <<"db_config[" \o Head(ks) \o "]">>, missing |-> Some(Head(ks))]
         ELSE LET rest == ReadKeys(db_config, Tail(ks)) IN
              [trace |-> <<"db_config[" \o Head(ks) \o "]">> \o rest.trace,
               missing |-> rest.missing]

\* The order in which get_connection's connect(...) arguments are evaluated.
ConnectKeys == <<"host", "port", "user", "password", "database">>
\* The URL built in the order of connect(...)'s arguments.
UrlKeysHostFirst == <<"host", "port", "user", "password", "database">>

\* The order in which get_engine's f-string reads the profile.
UrlKeys == <<"user", "password", "host", "port", "database">>

\* One branch of get_connection: import the driver, read the profile,
\* connect.  charset is "" for psycopg2, which is given none.
Connect(db_config, driver, charset, importOk, connectOk) ==
    LET imp == <<"import " \o driver>>
        rd == ReadKeys(db_config, ConnectKeys)
    IN  IF ~importOk
        THEN [trace |-> imp,
              exc |-> Exc("ImportError", "DriverUnavailable", driver, <<>>),
              conn |-> NoConn]
        ELSE IF rd.missing # None
        THEN [trace |-> imp \o rd.trace,
              exc |-> Exc("KeyError", "MissingField", rd.missing[1], <<>>),
              conn |-> NoConn]
        ELSE IF ~connectOk
        THEN [trace |-> imp \o rd.trace \o <<driver \o ".connect">>,
              exc |-> Exc("OperationalError", "ConnectFailed", driver, <<>>),
              conn |-> NoConn]
        ELSE [trace |-> imp \o rd.trace \o <<driver \o ".connect">>,
              exc |-> NoExc,
              conn |-> [driver |-> driver, charset |-> charset,
                        host |-> db_config["host"], port |-> db_config["port"],
                        user |-> db_config["user"], password |-> db_config["password"],
                        database |-> db_config["database"], open |-> TRUE]]

get_connection(db_name, importOk, connectOk) ==
    LET cfg == _load_config
        load == <<"_load_config">>
    IN  IF cfg.exc # NoExc
        THEN [trace |-> load, exc |-> cfg.exc, conn |-> NoConn]
        ELSE IF db_name \notin DOMAIN cfg.databases
        THEN [trace |-> load,
              exc |-> Exc("ValueError", "UnknownDatabase", db_name, cfg.keys),
              conn |-> NoConn]
        ELSE LET db_config == cfg.databases[db_name]
                 t == GetType(db_config)
                 rdt == load \o <<"db_config.get(type)">>
             IN  IF t = JsonNull
                 THEN [trace |-> rdt,
                       exc |-> Exc("AttributeError", "TypeNotString", "lower", <<>>),
                       conn |-> NoConn]
                 ELSE IF Lower(t) = "postgresql"
                 THEN LET c == Connect(db_config, "psycopg2", "", importOk, connectOk)
                      IN  [c EXCEPT !.trace = rdt \o @]
                 ELSE IF Lower(t) = "mariadb"
                 THEN LET c == Connect(db_config, "pymysql", "utf8mb4", importOk, connectOk)
                      IN  [c EXCEPT !.trace = rdt \o @]
                 ELSE [trace |-> rdt,
                       exc |-> Exc("ValueError", "UnsupportedType", Lower(t), <<>>),
                       conn |-> NoConn]

\* driver = "postgresql" if db_type == "postgresql" else "mysql+pymysql"
EngineDriver(db_type) ==
    IF db_type = "postgresql" THEN "postgresql" ELSE "mysql+pymysql"

get_engine(db_name, createOk) ==
    LET cfg == _load_config
        load == <<"_load_config">>
    IN  IF cfg.exc # NoExc
        THEN [trace |-> load, exc |-> cfg.exc, engine |-> NoEngine]
        ELSE IF db_name \notin DOMAIN cfg.databases
        THEN [trace |-> load,
              exc |-> Exc("ValueError", "UnknownDatabase", db_name, <<>>),
              engine |-> NoEngine]
        ELSE LET db_config == cfg.databases[db_name]
                 t == GetType(db_config)
                 rdt == load \o <<"db_config.get(type)">>
                 rd == ReadKeys(db_config, UrlKeys)
             IN  IF t = JsonNull
                 THEN [trace |-> rdt,
                       exc |-> Exc("AttributeError", "TypeNotString", "lower", <<>>),
                       engine |-> NoEngine]
                 ELSE IF rd.missing # None
                 THEN [trace |-> rdt \o rd.trace,
                       exc |-> Exc("KeyError", "MissingField", rd.missing[1], <<>>),
                       engine |-> NoEngine]
                 ELSE IF ~createOk
                 THEN [trace |-> rdt \o rd.trace \o <<"create_engine">>,
                       exc |-> Exc("ArgumentError", "EngineFailed", EngineDriver(Lower(t)), <<>>),
                       engine |-> NoEngine]
                 ELSE [trace |-> rdt \o rd.trace \o <<"create_engine">>,
                       exc |-> NoExc,
                       engine |-> [driver |-> EngineDriver(Lower(t)),
                                   url |-> EngineDriver(Lower(t)) \o "://"
                                           \o db_config["user"] \o ":" \o db_config["password"]
                                           \o "@" \o db_config["host"] \o ":"
                                           \o ToString(db_config["port"]) \o "/"
                                           \o db_config["database"],
                                   disposed |-> FALSE]]

(***************************************************************************)
(* get_dataframe                                                           *)
(***************************************************************************)
\* Only the first of the two checks.
CheckArgsNeitherOnly(q, table_name) ==
    IF q = None /\ table_name = None
    THEN Exc("ValueError", "InvalidArguments", "neither", <<>>)
    ELSE NoExc

\* The two argument checks at the top of get_dataframe.
CheckArgs(q, table_name) ==
    IF q = None /\ table_name = None
    THEN Exc("ValueError", "InvalidArguments", "neither", <<>>)
    ELSE IF q # None /\ table_name # None
    THEN Exc("ValueError", "InvalidArguments", "both", <<>>)
    ELSE NoExc

\* `if limit:` in place of `if limit is not None:`.
BuildQueryLimitTruthy(table_name, schema, limit) ==
    LET full_table_name ==
            IF Truthy(schema) THEN schema[1] \o "." \o table_name ELSE table_name
    IN  IF limit # None /\ limit[1] # 0
        THEN "SELECT * FROM " \o full_table_name \o " LIMIT " \o ToString(limit[1])
        ELSE "SELECT * FROM " \o full_table_name

\* The SELECT built from table_name, schema and limit.
BuildQuery(table_name, schema, limit) ==
    LET full_table_name ==
            IF Truthy(schema) THEN schema[1] \o "." \o table_name ELSE table_name
    IN  IF limit # None
        THEN "SELECT * FROM " \o full_table_name \o " LIMIT " \o ToString(limit[1])
        ELSE "SELECT * FROM " \o full_table_name

\* get_dataframe from its first line to the return of get_connection.
\* top: the public function and its arguments; a: what get_dataframe was
\* given; pre: what the caller did before calling get_dataframe.
GdfEnter(top, a, pre, importOk, connectOk) ==
    LET bad == CheckArgs(a.query, a.table_name)
        q == IF a.table_name # None
             THEN Some(BuildQuery(a.table_name[1], a.schema, a.limit))
             ELSE a.query
        gc == get_connection(a.db_name, importOk, connectOk)
        enter == pre \o <<"get_dataframe">>
    IN  /\ op' = top.op
        /\ args' = top.args
        /\ engine' = NoEngine
        /\ executed' = <<>>
        /\ out' = <<>>
        /\ UNCHANGED <<config, open_engines>>
        /\ IF bad # NoExc
           THEN /\ trace' = enter
                /\ query' = a.query
                /\ conn' = NoConn
                /\ result' = Raised(bad)
                /\ pc' = "done"
                /\ UNCHANGED open_conns
           ELSE IF gc.exc # NoExc
           THEN /\ trace' = enter \o <<"get_connection">> \o gc.trace
                /\ query' = q
                /\ conn' = NoConn
                /\ result' = Raised(gc.exc)
                /\ pc' = "done"
                /\ UNCHANGED open_conns
           ELSE /\ trace' = enter \o <<"get_connection">> \o gc.trace
                /\ query' = q
                /\ conn' = gc.conn
                /\ result' = Pending
                /\ pc' = "read_sql"
                /\ open_conns' = open_conns + 1

\* One public call at a time: the next starts when the last has returned.
CanCall == pc = "idle"

GetDataframeCall(db_name, q, table_name, schema, limit, importOk, connectOk) ==
    /\ CanCall
    /\ LET a == [db_name |-> db_name, query |-> q, table_name |-> table_name,
                 schema |-> schema, limit |-> limit]
       IN  GdfEnter([op |-> "get_dataframe", args |-> a], a, <<>>, importOk, connectOk)

\* df = pd.read_sql(query, conn): returns the frame or raises.
GdfReadSql(ok) ==
    /\ pc = "read_sql"
    /\ trace' = Append(trace, "pd.read_sql")
    /\ executed' = Append(executed, [call |-> "read_sql", sql |-> query[1],
                                     driver |-> conn.driver, open |-> conn.open])
    /\ result' = IF ok THEN Returned
                 ELSE Raised(Exc("DatabaseError", "QueryFailed", query[1], <<>>))
    /\ pc' = "close"
    /\ UNCHANGED <<config, op, args, query, conn, engine, out, open_conns, open_engines>>

\* conn.close() after the read instead of in a finally clause.
GdfCloseOnSuccessOnly ==
    /\ pc = "close"
    /\ IF result.tag = "raise"
       THEN UNCHANGED <<trace, conn, open_conns>>
       ELSE /\ trace' = Append(trace, "conn.close")
            /\ conn' = [conn EXCEPT !.open = FALSE]
            /\ open_conns' = open_conns - 1
    /\ pc' = "done"
    /\ UNCHANGED <<config, op, args, query, engine, executed, out, result, open_engines>>

\* finally: conn.close(), then the return or the exception goes on.
GdfClose ==
    /\ pc = "close"
    /\ trace' = Append(trace, "conn.close")
    /\ conn' = [conn EXCEPT !.open = FALSE]
    /\ open_conns' = open_conns - 1
    /\ pc' = "done"
    /\ UNCHANGED <<config, op, args, query, engine, executed, out, result, open_engines>>

(***************************************************************************)
(* get_tables and preview                                                  *)
(***************************************************************************)
\* The PostgreSQL branch without its default schema.
TablesQueryNoDefault(db_type, schema) ==
    IF db_type = "postgresql"
    THEN "SELECT table_name, table_type FROM information_schema.tables WHERE table_schema = '"
         \o (IF schema # None THEN schema[1] ELSE "")
         \o "' ORDER BY table_name"
    ELSE "SELECT TABLE_NAME as table_name, TABLE_TYPE as table_type FROM information_schema.TABLES WHERE 1=1 "
         \o (IF Truthy(schema) THEN "AND TABLE_SCHEMA = '" \o schema[1] \o "'"
             ELSE "AND TABLE_SCHEMA = DATABASE()")
         \o " ORDER BY TABLE_NAME"

\* The metadata query of get_tables, whitespace normalised.
TablesQuery(db_type, schema) ==
    IF db_type = "postgresql"
    THEN "SELECT table_name, table_type FROM information_schema.tables WHERE table_schema = '"
         \o (IF Truthy(schema) THEN schema[1] ELSE "public")
         \o "' ORDER BY table_name"
    ELSE "SELECT TABLE_NAME as table_name, TABLE_TYPE as table_type FROM information_schema.TABLES WHERE 1=1 "
         \o (IF Truthy(schema) THEN "AND TABLE_SCHEMA = '" \o schema[1] \o "'"
             ELSE "AND TABLE_SCHEMA = DATABASE()")
         \o " ORDER BY TABLE_NAME"

\* A call that ends in the caller's own code, before get_dataframe.
EndEarly(top, tr, e) ==
    /\ op' = top.op
    /\ args' = top.args
    /\ trace' = tr
    /\ result' = Raised(e)
    /\ pc' = "done"
    /\ query' = None
    /\ conn' = NoConn
    /\ engine' = NoEngine
    /\ executed' = <<>>
    /\ out' = <<>>
    /\ UNCHANGED <<config, open_conns, open_engines>>

GetTablesCall(db_name, schema, importOk, connectOk) ==
    /\ CanCall
    /\ LET top == [op |-> "get_tables", args |-> [db_name |-> db_name, schema |-> schema]]
           cfg == _load_config
           load == <<"_load_config">>
       IN  IF cfg.exc # NoExc
           THEN EndEarly(top, load, cfg.exc)
           ELSE IF db_name \notin DOMAIN cfg.databases
           THEN EndEarly(top, load, Exc("ValueError", "UnknownDatabase", db_name, <<>>))
           ELSE LET t == GetType(cfg.databases[db_name])
                    rdt == load \o <<"db_config.get(type)">>
                IN  IF t = JsonNull
                    THEN EndEarly(top, rdt, Exc("AttributeError", "TypeNotString", "lower", <<>>))
                    ELSE IF Lower(t) \in {"postgresql", "mariadb"}
                    THEN GdfEnter(top,
                                  [db_name |-> db_name,
                                   query |-> Some(TablesQuery(Lower(t), schema)),
                                   table_name |-> None, schema |-> None, limit |-> None],
                                  rdt, importOk, connectOk)
                    ELSE EndEarly(top, rdt, Exc("ValueError", "UnsupportedType", Lower(t), <<>>))

PreviewCall(db_name, table_name, schema, n, importOk, connectOk) ==
    /\ CanCall
    /\ GdfEnter([op |-> "preview",
                 args |-> [db_name |-> db_name, table_name |-> table_name,
                           schema |-> schema, n |-> n]],
                [db_name |-> db_name, query |-> None, table_name |-> Some(table_name),
                 schema |-> schema, limit |-> Some(n)],
                <<>>, importOk, connectOk)

(***************************************************************************)
(* The factories as public functions: the caller owns what they return.    *)
(***************************************************************************)
GetConnectionCall(db_name, importOk, connectOk) ==
    /\ CanCall
    /\ LET gc == get_connection(db_name, importOk, connectOk) IN
       /\ op' = "get_connection"
       /\ args' = [db_name |-> db_name]
       /\ trace' = gc.trace
       /\ conn' = gc.conn
       /\ result' = IF gc.exc # NoExc THEN Raised(gc.exc) ELSE Returned
    /\ pc' = "done"
    /\ query' = None
    /\ engine' = NoEngine
    /\ executed' = <<>>
    /\ out' = <<>>
    /\ UNCHANGED <<config, open_conns, open_engines>>

GetEngineCall(db_name, createOk) ==
    /\ CanCall
    /\ LET ge == get_engine(db_name, createOk) IN
       /\ op' = "get_engine"
       /\ args' = [db_name |-> db_name]
       /\ trace' = ge.trace
       /\ engine' = ge.engine
       /\ result' = IF ge.exc # NoExc THEN Raised(ge.exc) ELSE Returned
    /\ pc' = "done"
    /\ query' = None
    /\ conn' = NoConn
    /\ executed' = <<>>
    /\ out' = <<>>
    /\ UNCHANGED <<config, open_conns, open_engines>>

(***************************************************************************)
(* save_dataframe                                                          *)
(***************************************************************************)
\* engine = get_engine(db_name), the statement before the try.
SaveDataframeCall(db_name, table_name, schema, if_exists, createOk) ==
    /\ CanCall
    /\ LET ge == get_engine(db_name, createOk) IN
       /\ op' = "save_dataframe"
       /\ args' = [db_name |-> db_name, table_name |-> table_name, schema |-> schema,
                   if_exists |-> if_exists, index |-> FALSE]
       /\ trace' = <<"get_engine">> \o ge.trace
       /\ engine' = ge.engine
       /\ IF ge.exc # NoExc
          THEN /\ result' = Raised(ge.exc)
               /\ pc' = "done"
               /\ UNCHANGED open_engines
          ELSE /\ result' = Pending
               /\ pc' = "to_sql"
               /\ open_engines' = open_engines + 1
    /\ query' = None
    /\ conn' = NoConn
    /\ executed' = <<>>
    /\ out' = <<>>
    /\ UNCHANGED <<config, open_conns>>

\* The try block: df.to_sql(...) and the success notice, or the except
\* clause's failure notice and re-raise.
SdfToSql(ok) ==
    /\ pc = "to_sql"
    /\ executed' = Append(executed,
                          [call |-> "to_sql", name |-> args.table_name,
                           schema |-> args.schema, if_exists |-> args.if_exists,
                           index |-> args.index, method |-> "multi",
                           chunksize |-> Chunksize, driver |-> engine.driver,
                           disposed |-> engine.disposed])
    /\ IF ok
       THEN /\ trace' = trace \o <<"df.to_sql", "print success">>
            /\ out' = Append(out, [notice |-> "success", db_name |-> args.db_name,
                                   target |-> IF Truthy(args.schema)
                                              THEN args.schema[1] \o "." \o args.table_name
                                              ELSE args.table_name,
                                   if_exists |-> args.if_exists])
            /\ result' = Returned
       ELSE LET e == Exc("DatabaseError", "WriteFailed", args.table_name, <<>>) IN
            /\ trace' = trace \o <<"df.to_sql", "print failure">>
            /\ out' = Append(out, [notice |-> "failure", text |-> e.detail])
            /\ result' = Raised(e)
    /\ pc' = "dispose"
    /\ UNCHANGED <<config, op, args, query, conn, engine, open_conns, open_engines>>

\* engine.dispose() after the try statement instead of in its finally clause.
SdfDisposeOnSuccessOnly ==
    /\ pc = "dispose"
    /\ IF result.tag = "raise"
       THEN UNCHANGED <<trace, engine, open_engines>>
       ELSE /\ trace' = Append(trace, "engine.dispose")
            /\ engine' = [engine EXCEPT !.disposed = TRUE]
            /\ open_engines' = open_engines - 1
    /\ pc' = "done"
    /\ UNCHANGED <<config, op, args, query, conn, executed, out, result, open_conns>>

\* finally: engine.dispose()
SdfDispose ==
    /\ pc = "dispose"
    /\ trace' = Append(trace, "engine.dispose")
    /\ engine' = [engine EXCEPT !.disposed = TRUE]
    /\ open_engines' = open_engines - 1
    /\ pc' = "done"
    /\ UNCHANGED <<config, op, args, query, conn, executed, out, result, open_conns>>

(***************************************************************************)
(* The state machine                                                       *)
(***************************************************************************)
Init ==
    /\ config \in Configs
    /\ op = "idle"
    /\ args = <<>>
    /\ pc = "idle"
    /\ query = None
    /\ conn = NoConn
    /\ engine = NoEngine
    /\ trace = <<>>
    /\ executed = <<>>
    /\ out = <<>>
    /\ result = Pending
    /\ open_conns = 0
    /\ open_engines = 0

\* The call's result (or exception) reaches the caller and its frame is
\* dropped; the counts of what it left open stay.
Return ==
    /\ pc = "done"
    /\ pc' = "idle"
    /\ op' = "idle"
    /\ args' = <<>>
    /\ query' = None
    /\ conn' = NoConn
    /\ engine' = NoEngine
    /\ trace' = <<>>
    /\ executed' = <<>>
    /\ out' = <<>>
    /\ result' = Pending
    /\ UNCHANGED <<config, open_conns, open_engines>>

Next ==
    \/ \E db \in CallNames, i \in BOOLEAN, c \in BOOLEAN : GetConnectionCall(db, i, c)
    \/ \E db \in CallNames, c \in BOOLEAN : GetEngineCall(db, c)
    \/ \E db \in CallNames, q \in Queries, t \in Tables, s \in Schemas, l \in Limits,
          i \in BOOLEAN, c \in BOOLEAN : GetDataframeCall(db, q, t, s, l, i, c)
    \/ \E ok \in BOOLEAN : GdfReadSql(ok)
    \/ GdfClose
    \/ \E db \in CallNames, s \in Schemas, i \in BOOLEAN, c \in BOOLEAN :
          GetTablesCall(db, s, i, c)
    \/ \E db \in CallNames, s \in Schemas, n \in (0..MaxLimit) \cup {PreviewDefaultN},
          i \in BOOLEAN, c \in BOOLEAN : PreviewCall(db, "t", s, n, i, c)
    \/ \E db \in CallNames, s \in Schemas, m \in IfExists, c \in BOOLEAN :
          SaveDataframeCall(db, "t", s, m, c)
    \/ \E ok \in BOOLEAN : SdfToSql(ok)
    \/ SdfDispose
    \/ Return

Spec == Init /\ [][Next]_vars

(***************************************************************************)
(* Vocabulary of the properties                                            *)
(***************************************************************************)
Count(seq, e) == Cardinality({i \in 1..Len(seq) : seq[i] = e})
Has(seq, e) == \E i \in 1..Len(seq) : seq[i] = e
Done == pc = "done"
Configured(db) == config.exists /\ db \in DOMAIN config.databases
\* The type a profile declares, as written in the file.
Declared(db) ==
    IF "type" \in DOMAIN config.databases[db]
    THEN config.databases[db]["type"] ELSE "<absent>"
MissingKeys(db) == ProfileKeys \ DOMAIN config.databases[db]
Imports == Count(trace, "import psycopg2") + Count(trace, "import pymysql")
ReadOps == {"get_dataframe", "get_tables", "preview"}
RaisedKind(k) == result.tag = "raise" /\ result.exc.kind = k
\* The first key of ks that the profile of db lacks, as a set (empty when none).
FirstMissing(db, ks) ==
    {ks[i] : i \in {j \in 1..Len(ks) :
                      /\ ks[j] \in MissingKeys(db)
                      /\ \A h \in 1..(j - 1) : ks[h] \notin MissingKeys(db)}}

(***************************************************************************)
(* C1 - Every connection a get_dataframe call (direct, or through          *)
(* get_tables or preview) obtained is closed exactly once, as the last     *)
(* thing the call does, whether pd.read_sql returned or raised; between    *)
(* calls no connection opened by such a call is open.                      *)
(***************************************************************************)
C1_ConnectionClosedOnce ==
    /\ (Done /\ op \in ReadOps /\ conn # NoConn)
         => /\ ~conn.open
            /\ Count(trace, "conn.close") = 1
            /\ trace[Len(trace)] = "conn.close"
            /\ Has(trace, "pd.read_sql")
    /\ (pc \in {"read_sql", "close"} => conn.open /\ ~Has(trace, "conn.close"))
    /\ (pc \in {"idle", "done"} => open_conns = 0)

C1_Witness ==
    /\ Done /\ op = "get_tables" /\ RaisedKind("QueryFailed")
    /\ conn # NoConn /\ ~conn.open

(***************************************************************************)
(* C2 - Every engine a save_dataframe call obtained is disposed exactly    *)
(* once, as the last thing the call does, whether df.to_sql returned or    *)
(* raised; between calls no engine created by save_dataframe is left       *)
(* undisposed.                                                             *)
(***************************************************************************)
C2_EngineDisposedOnce ==
    /\ (Done /\ op = "save_dataframe" /\ engine # NoEngine)
         => /\ engine.disposed
            /\ Count(trace, "engine.dispose") = 1
            /\ trace[Len(trace)] = "engine.dispose"
            /\ Has(trace, "df.to_sql")
    /\ (pc \in {"to_sql", "dispose"} => ~engine.disposed /\ ~Has(trace, "engine.dispose"))
    /\ (pc \in {"idle", "done"} => open_engines = 0)

C2_Witness ==
    /\ Done /\ op = "save_dataframe" /\ RaisedKind("WriteFailed")
    /\ engine # NoEngine /\ engine.disposed

(***************************************************************************)
(* C3 - get_dataframe raises ValueError (InvalidArguments) without asking  *)
(* for a connection when query and table_name are both unset or both set;  *)
(* when exactly one is set it passes the check and calls get_connection.   *)
(***************************************************************************)
C3_ExactlyOneOfQueryAndTable ==
    op = "get_dataframe" =>
        IF (args.query = None) = (args.table_name = None)
        THEN /\ Done
             /\ RaisedKind("InvalidArguments")
             /\ result.exc.exc = "ValueError"
             /\ ~Has(trace, "get_connection")
             /\ conn = NoConn
        ELSE /\ ~RaisedKind("InvalidArguments")
             /\ Has(trace, "get_connection")

C3_Witness ==
    /\ Done /\ op = "get_dataframe"
    /\ args.query # None /\ args.table_name # None
    /\ RaisedKind("InvalidArguments")

(***************************************************************************)
(* C4 - For a name that is not configured, get_connection, get_engine,     *)
(* get_dataframe (valid arguments) and save_dataframe all fail with        *)
(* UnknownDatabase, the error lists every configured name, and nothing is  *)
(* created.                                                                *)
(***************************************************************************)
C4_UnknownDatabaseListsNames ==
    (/\ Done
     /\ op \in {"get_connection", "get_engine", "get_dataframe", "save_dataframe"}
     /\ config.exists
     /\ args.db_name \notin DOMAIN config.databases
     /\ op = "get_dataframe" => (args.query = None) # (args.table_name = None))
      => /\ RaisedKind("UnknownDatabase")
         /\ \A n \in DOMAIN config.databases : Has(result.exc.listed, n)
         /\ conn = NoConn
         /\ engine = NoEngine

(***************************************************************************)
(* C5 - Whenever save_dataframe raises, in whatever step, it has printed   *)
(* the failure notice before the error reaches the caller and has not      *)
(* printed the success notice.                                             *)
(***************************************************************************)
C5_FailureNoticeBeforeRaise ==
    (Done /\ op = "save_dataframe" /\ result.tag = "raise")
      => /\ \E i \in 1..Len(out) : out[i].notice = "failure"
         /\ \A i \in 1..Len(out) : out[i].notice # "success"
         /\ Has(trace, "print failure")

(***************************************************************************)
(* C6 - get_engine dispatches on the type as get_connection does: the      *)
(* postgresql scheme for type postgresql, mysql+pymysql for type mariadb,  *)
(* and UnsupportedType with no engine for every other string type, a       *)
(* missing type included.  (Types are compared lower-cased, as             *)
(* get_connection compares them; stated for profiles that have every key   *)
(* the URL needs.)                                                         *)
(***************************************************************************)
C6_EngineDispatchLikeConnection ==
    (Done /\ op = "get_engine" /\ Configured(args.db_name)
          /\ Declared(args.db_name) # JsonNull
          /\ MissingKeys(args.db_name) \subseteq {"type"})
      => LET t == Declared(args.db_name) IN
         /\ (t \in {"postgresql", "PostgreSQL"} /\ engine # NoEngine)
              => engine.driver = "postgresql"
         /\ (t \in {"mariadb", "MariaDB"} /\ engine # NoEngine)
              => engine.driver = "mysql+pymysql"
         /\ t \notin {"postgresql", "PostgreSQL", "mariadb", "MariaDB"}
              => /\ RaisedKind("UnsupportedType")
                 /\ engine = NoEngine
                 /\ ~Has(trace, "create_engine")

(***************************************************************************)
(* C7 - get_connection on a configured name.                               *)
(* As claimed: a PostgreSQL connection exactly for the declared type       *)
(* postgresql, a MySQL-protocol connection with charset utf8mb4 exactly    *)
(* for the declared type mariadb, UnsupportedType and no connection for    *)
(* any other declared type; one driver per call, no fallback.  (Stated for *)
(* the types that are strings, or missing.)                                *)
(***************************************************************************)
C7_DispatchOnDeclaredType ==
    (Done /\ op = "get_connection" /\ Configured(args.db_name)
          /\ Declared(args.db_name) # JsonNull)
      => LET t == Declared(args.db_name) IN
         /\ Has(trace, "import psycopg2") <=> t = "postgresql"
         /\ Has(trace, "import pymysql") <=> t = "mariadb"
         /\ conn # NoConn =>
              \/ t = "postgresql" /\ conn.driver = "psycopg2"
              \/ t = "mariadb" /\ conn.driver = "pymysql" /\ conn.charset = "utf8mb4"
         /\ t \notin {"postgresql", "mariadb"}
              => RaisedKind("UnsupportedType") /\ conn = NoConn
         /\ Imports <= 1

(* C7, amended - the dispatch is on the lower-cased type, and only a       *)
(* string can be lower-cased: psycopg2 is the one driver tried exactly     *)
(* when the declared type lower-cased is postgresql, pymysql (with charset *)
(* utf8mb4) exactly when it is mariadb; any other string type, a missing   *)
(* type included, fails with UnsupportedType and a non-string type with    *)
(* AttributeError, in both cases with no driver tried and no connection.   *)
(* A connection, when one is opened, is of the driver tried.               *)
C7_DispatchOnLoweredType ==
    (Done /\ op = "get_connection" /\ Configured(args.db_name))
      => LET t == Declared(args.db_name) IN
         /\ Has(trace, "import psycopg2") <=> t \in {"postgresql", "PostgreSQL"}
         /\ Has(trace, "import pymysql") <=> t \in {"mariadb", "MariaDB"}
         /\ conn # NoConn =>
              \/ /\ Has(trace, "import psycopg2")
                 /\ conn.driver = "psycopg2"
                 /\ result.tag = "return"
              \/ /\ Has(trace, "import pymysql")
                 /\ conn.driver = "pymysql" /\ conn.charset = "utf8mb4"
                 /\ result.tag = "return"
         /\ (Has(trace, "psycopg2.connect") /\ result.tag = "return")
              => conn # NoConn /\ conn.open
         /\ (Has(trace, "pymysql.connect") /\ result.tag = "return")
              => conn # NoConn /\ conn.open
         /\ t \notin {"postgresql", "PostgreSQL", "mariadb", "MariaDB", JsonNull}
              => RaisedKind("UnsupportedType") /\ conn = NoConn /\ Imports = 0
         /\ t = JsonNull
              => result.tag = "raise" /\ result.exc.exc = "AttributeError"
                 /\ conn = NoConn /\ Imports = 0
         /\ Imports <= 1

C7_Witness ==
    /\ Done /\ op = "get_connection" /\ Configured(args.db_name)
    /\ Declared(args.db_name) = "PostgreSQL"
    /\ conn # NoConn /\ conn.driver = "psycopg2" /\ conn.open

\* Whether the current call read key k of the profile.
KeyRead(k) ==
    IF k = "type" THEN Has(trace, "db_config.get(type)")
    ELSE Has(trace, "db_config[" \o k \o "]")

(***************************************************************************)
(* C8 - A profile that lacks a required key.                               *)
(* As claimed: whichever of type, host, port, user, password, database is  *)
(* missing, the get_connection or get_engine call that reads it fails with *)
(* MissingField naming it and creates nothing.                             *)
(***************************************************************************)
C8_MissingFieldForEveryKey ==
    (Done /\ op \in {"get_connection", "get_engine"} /\ Configured(args.db_name))
      => \A k \in MissingKeys(args.db_name) :
            KeyRead(k) => /\ RaisedKind("MissingField")
                          /\ result.exc.detail = k
                          /\ conn = NoConn
                          /\ engine = NoEngine

(* C8, amended - the file loads whatever keys a profile lacks.  A missing  *)
(* host, port, user, password or database is reported when the call        *)
(* subscripts it: the call fails with KeyError (MissingField) naming that  *)
(* key, the first missing one in its read order (host, port, user,         *)
(* password, database in get_connection; user, password, host, port,       *)
(* database in get_engine), and creates nothing.  A missing type is never  *)
(* reported as MissingField: it is read with the default "", which         *)
(* get_connection rejects with UnsupportedType.                            *)
C8_MissingFieldOnSubscript ==
    (Done /\ op \in {"get_connection", "get_engine"} /\ Configured(args.db_name))
      => LET db == args.db_name
             order == IF op = "get_connection"
                      THEN <<"host", "port", "user", "password", "database">>
                      ELSE <<"user", "password", "host", "port", "database">>
         IN
         /\ ~RaisedKind("ConfigNotFound")
         /\ \A k \in MissingKeys(db) \ {"type"} :
               KeyRead(k) => /\ RaisedKind("MissingField")
                             /\ result.exc.exc = "KeyError"
                             /\ result.exc.detail = k
                             /\ {k} = FirstMissing(db, order)
                             /\ trace[Len(trace)] = "db_config[" \o k \o "]"
                             /\ conn = NoConn
                             /\ engine = NoEngine
         /\ RaisedKind("MissingField")
               => /\ result.exc.detail \in MissingKeys(db) \ {"type"}
                  /\ KeyRead(result.exc.detail)
         /\ "type" \in MissingKeys(db)
               => /\ ~(RaisedKind("MissingField") /\ result.exc.detail = "type")
                  /\ op = "get_connection" => RaisedKind("UnsupportedType")

C8_Witness ==
    /\ Done /\ op = "get_engine" /\ Configured(args.db_name)
    /\ MissingKeys(args.db_name) = {"host", "user"}
    /\ RaisedKind("MissingField") /\ result.exc.detail = "user"

\* The table arguments of the current get_dataframe or preview call.
TableCall ==
    \/ op = "preview"
    \/ op = "get_dataframe" /\ args.table_name # None /\ args.query = None
CallTable == IF op = "preview" THEN args.table_name ELSE args.table_name[1]
CallLimit == IF op = "preview" THEN Some(args.n) ELSE args.limit
LimitSuffix == IF CallLimit # None THEN " LIMIT " \o ToString(CallLimit[1]) ELSE ""
SqlRun(sql) ==
    /\ pc = "read_sql" => query = Some(sql)
    /\ \A i \in 1..Len(executed) : executed[i].call = "read_sql" /\ executed[i].sql = sql
    /\ Len(executed) <= 1
    /\ (Done /\ result.tag = "return") => Len(executed) = 1

(***************************************************************************)
(* C9 - The SELECT get_dataframe builds from table_name.                   *)
(* As claimed: SELECT * FROM <table>, with <schema>. in front whenever a   *)
(* schema is supplied and LIMIT <limit> behind whenever a limit is         *)
(* supplied (0 included); preview(db, table, schema, n) runs the SQL of    *)
(* get_dataframe(db, table_name=table, schema=schema, limit=n).            *)
(***************************************************************************)
C9_SelectWithSuppliedSchema ==
    TableCall =>
        SqlRun("SELECT * FROM "
               \o (IF args.schema # None THEN args.schema[1] \o "." ELSE "")
               \o CallTable \o LimitSuffix)

(* C9, amended - the schema prefix is added when the schema supplied is a  *)
(* non-empty string; an empty-string schema is treated as omitted.  The    *)
(* rest stands: LIMIT <limit> for every supplied limit, 0 included, and    *)
(* preview runs the SQL of the equivalent get_dataframe call.              *)
C9_SelectWithNonEmptySchema ==
    TableCall =>
        SqlRun("SELECT * FROM "
               \o (IF args.schema \notin {None, Some("")} THEN args.schema[1] \o "." ELSE "")
               \o CallTable \o LimitSuffix)

C9_Witness ==
    /\ Done /\ op = "preview" /\ result.tag = "return"
    /\ args.schema = Some("s") /\ args.n = 0
    /\ executed[1].sql = "SELECT * FROM s.t LIMIT 0"

\* The two metadata queries, and what running one through get_dataframe means.
PgTables(filter) ==
    "SELECT table_name, table_type FROM information_schema.tables WHERE table_schema = '"
    \o filter \o "' ORDER BY table_name"
MyTables(filter) ==
    "SELECT TABLE_NAME as table_name, TABLE_TYPE as table_type FROM information_schema.TABLES WHERE 1=1 AND TABLE_SCHEMA = "
    \o filter \o " ORDER BY TABLE_NAME"
TablesRun(sql, driver) ==
    /\ query = Some(sql)
    /\ Has(trace, "get_dataframe")
    /\ Has(trace, "import " \o driver)
    /\ conn # NoConn => conn.driver = driver
    /\ \A i \in 1..Len(executed) :
          /\ executed[i].call = "read_sql"
          /\ executed[i].sql = sql
          /\ executed[i].driver = driver
    /\ Len(executed) <= 1
    /\ (Done /\ result.tag = "return") => Len(executed) = 1
RefusedBeforeConnecting(kind) ==
    /\ Done
    /\ RaisedKind(kind)
    /\ ~Has(trace, "get_dataframe")
    /\ ~Has(trace, "get_connection")
    /\ conn = NoConn
    /\ executed = <<>>

(***************************************************************************)
(* C10 - The metadata query of get_tables on a configured name.            *)
(* As claimed: for type postgresql the filter is the supplied schema, or   *)
(* 'public' when the schema is omitted; for type mariadb the supplied      *)
(* schema, or DATABASE() when omitted; any other declared type fails with  *)
(* UnsupportedType before a connection is asked for.  The one query is run *)
(* through get_dataframe on a connection of the type it was built for.     *)
(* (Stated for the types that are strings, or missing.)                    *)
(***************************************************************************)
C10_TablesQueryByDeclaredType ==
    (op = "get_tables" /\ Configured(args.db_name)
        /\ Declared(args.db_name) # JsonNull)
      => LET t == Declared(args.db_name) IN
         /\ t = "postgresql" =>
              TablesRun(PgTables(IF args.schema # None THEN args.schema[1] ELSE "public"),
                        "psycopg2")
         /\ t = "mariadb" =>
              TablesRun(MyTables(IF args.schema # None
                                 THEN "'" \o args.schema[1] \o "'" ELSE "DATABASE()"),
                        "pymysql")
         /\ t \notin {"postgresql", "mariadb"} => RefusedBeforeConnecting("UnsupportedType")

(* C10, amended - the type is compared lower-cased and an empty-string     *)
(* schema counts as omitted: for a type that lower-cases to postgresql the *)
(* filter is the non-empty schema supplied, else 'public'; for one that    *)
(* lower-cases to mariadb the non-empty schema supplied, else DATABASE();  *)
(* any other string type (a missing type included) fails with              *)
(* UnsupportedType, and a non-string type with AttributeError, before a    *)
(* connection is asked for.  The one query is run through get_dataframe on *)
(* a connection of the type it was built for.                              *)
C10_TablesQueryByLoweredType ==
    (op = "get_tables" /\ Configured(args.db_name))
      => LET t == Declared(args.db_name)
             given == args.schema \notin {None, Some("")}
         IN
         /\ t \in {"postgresql", "PostgreSQL"} =>
              TablesRun(PgTables(IF given THEN args.schema[1] ELSE "public"), "psycopg2")
         /\ t \in {"mariadb", "MariaDB"} =>
              TablesRun(MyTables(IF given THEN "'" \o args.schema[1] \o "'" ELSE "DATABASE()"),
                        "pymysql")
         /\ t \notin {"postgresql", "PostgreSQL", "mariadb", "MariaDB", JsonNull}
              => RefusedBeforeConnecting("UnsupportedType")
         /\ t = JsonNull => RefusedBeforeConnecting("TypeNotString")

C10_Witness ==
    /\ Done /\ op = "get_tables" /\ Configured(args.db_name)
    /\ Declared(args.db_name) = "postgresql"
    /\ args.schema = None
    /\ result.tag = "return"
    /\ executed[1].sql = PgTables("public")
    /\ executed[1].driver = "psycopg2"

====
